---- MODULE Spec2Model ----
(***************************************************************************)
(* A model of the EPUB OCR scripts: the recognition cache of               *)
(* epub_extractor.py / extract_epub_enhanced.py, the image extraction and  *)
(* its resume branch, and the chapter/TOC extraction of extract_toc.py,    *)
(* extract_chapters.py, scan_chapters.py, parse_epub_ocr.py and            *)
(* parse_epub_ocr_v2.py.                                                   *)
(*                                                                         *)
(* Five specifications share the module:                                   *)
(*   Spec       the recognition cache under runs of process_pages          *)
(*   SpecCall   ocr_single_page called page by page by a client            *)
(*   SpecStore  image extraction and the resume branch of process_pages    *)
(*   SpecScan   the scans and the title extraction                         *)
(*   SpecConc   several runs inside ocr_single_page at the same time       *)
(***************************************************************************)
EXTENDS Integers, Sequences, FiniteSets, TLC

VARIABLES
    \* ---- recognition cache (Spec) ----
    engine,      \* page -> the text pytesseract returns for that page's image
    ocr,         \* page -> the record file page_NNNN.txt of the output directory
    recognizing, \* the pages the latest step invoked recognition for
    run,         \* the process_pages run in progress
    last,        \* the last recognize request and what it returned
    prev,        \* the recognize request before the last one
    anyFail,     \* some recognition call has raised (history)
    \* ---- page store (SpecStore) ----
    container,   \* epub.namelist() with each entry's data
    images,      \* the image directory: set of files
    image_files, \* the page list the last process_pages built
    branch,      \* which branch built image_files
    \* ---- scans (SpecScan) ----
    book,        \* the ordered page sequence handed to a scan
    scan,        \* the scan in progress and its accumulators
    \* ---- concurrent runs (SpecConc) ----
    workers      \* worker -> where it stands inside ocr_single_page

vars == <<engine, ocr, recognizing, run, last, prev, anyFail,
          container, images, image_files, branch, book, scan, workers>>

cacheVars == <<engine, ocr, recognizing, run, last, prev, anyFail>>
storeVars == <<container, images, image_files, branch>>
scanVars  == <<book, scan>>

(***************************************************************************)
(* Generic helpers on sequences.                                           *)
(***************************************************************************)
Min(a, b) == IF a <= b THEN a ELSE b

SeqsUpTo(S, n) == UNION {[1..k -> S] : k \in 0..n}

Contains(seq, x) == \E i \in 1..Len(seq) : seq[i] = x

(***************************************************************************)
(* RECOGNITION CACHE  (epub_extractor.py, extract_epub_enhanced.py)        *)
(***************************************************************************)
MaxPage == 2        \* pages 1..MaxPage have an image
MaxTextLen == 1     \* longest recognized text of Spec, in characters
MaxCallTextLen == 2 \* longest recognized text of SpecCall, in characters

CachePages == 1..MaxPage
Pipelines == {"plain", "enhanced"}

\* the recognized texts of Spec, and those of SpecCall (with line ends)
RunTexts == SeqsUpTo({"a"}, MaxTextLen)
CallTexts == SeqsUpTo({"a", "\n", "\r"}, MaxCallTextLen)

\* open(ocr_file, 'w', encoding='utf-8') writes in text mode with newline=None:
\* every "\n" of the text is written as os.linesep, nothing else is changed.
LineSep == <<"\n">>

RECURSIVE WriteText(_)
WriteText(text) ==
    IF text = <<>> THEN <<>>
    ELSE (IF Head(text) = "\n" THEN LineSep ELSE <<Head(text)>>)
         \o WriteText(Tail(text))

\* open(ocr_file, 'r', encoding='utf-8') reads in text mode with newline=None
\* (universal newlines): "\r\n" and a lone "\r" are both returned as "\n".
RECURSIVE ReadText(_)
ReadText(data) ==
    IF data = <<>> THEN <<>>
    ELSE IF Head(data) = "\r"
         THEN IF Len(data) >= 2 /\ data[2] = "\n"
              THEN <<"\n">> \o ReadText(Tail(Tail(data)))
              ELSE <<"\n">> \o ReadText(Tail(data))
         ELSE <<Head(data)>> \o ReadText(Tail(data))

NoRecord == [exists |-> FALSE, text |-> <<>>]
Record(data) == [exists |-> TRUE, text |-> data]

\* what a write that stops after k characters leaves behind: open(.., 'w')
\* has created the file, and the first k characters of the data reached it
TornWrites(text) == {SubSeq(WriteText(text), 1, k) : k \in 0..Len(WriteText(text))}

\* os.path.exists(ocr_file)
CacheHitNever(p) == FALSE
CacheHit(p) == ocr[p].exists

\* the state of process_pages: the script that runs, its arguments, its
\* position i in image_files, its two counters; redone and resumed are
\* history (this run recognized a page that already had a record; an
\* earlier run was cut short)
Idle == [tool |-> "plain", pc |-> "idle", start_page |-> 1, end_page |-> 1,
         i |-> 0, processed |-> 0, skipped |-> 0,
         redone |-> FALSE, resumed |-> FALSE]

NoCall == [page |-> 0, outcome |-> "none", ret |-> <<>>, invoked |-> 0]

\* One output directory, used by one of the two scripts: "ocr" by
\* epub_extractor.py, "ocr_enhanced" by extract_epub_enhanced.py.
CacheInitOver(texts, tools) ==
    /\ engine \in [CachePages -> texts]
    /\ ocr = [p \in CachePages |-> NoRecord]
    /\ recognizing = {}
    /\ \E tool \in tools : run = [Idle EXCEPT !.tool = tool]
    /\ last = NoCall
    /\ prev = NoCall
    /\ anyFail = FALSE

CacheUnused ==
    /\ engine = <<>>
    /\ ocr = <<>>
    /\ recognizing = {}
    /\ run = Idle
    /\ last = NoCall
    /\ prev = NoCall
    /\ anyFail = FALSE

\* ---- ocr_single_page(image_path, ocr_dir, page_num) ----

\* lines 53-55: the record exists, it is read back and returned
SingleHit(p) ==
    /\ CacheHit(p)
    /\ last' = [page |-> p, outcome |-> "hit",
                ret |-> ReadText(ocr[p].text), invoked |-> 0]
    /\ recognizing' = {}
    /\ UNCHANGED <<ocr, anyFail>>

\* lines 58-66: recognition succeeds, the text is written and returned
SingleRecognized(p) ==
    /\ ~CacheHit(p)
    /\ recognizing' = {p}
    /\ ocr' = [ocr EXCEPT ![p] = Record(WriteText(engine[p]))]
    /\ last' = [page |-> p, outcome |-> "ok", ret |-> engine[p], invoked |-> 1]
    /\ UNCHANGED anyFail

\* lines 58-60, 67-69: Image.open or image_to_string raises; the handler
\* prints the warning and returns "" without writing a record
SingleFailed(p) ==
    /\ ~CacheHit(p)
    /\ recognizing' = {p}
    /\ last' = [page |-> p, outcome |-> "ocr_fail", ret |-> <<>>, invoked |-> 1]
    /\ anyFail' = TRUE
    /\ UNCHANGED ocr

\* lines 63-64 cut short: the process dies between open(.., 'w') and the
\* close of the file; the record file exists with a prefix of the text
SingleCrashed(p) ==
    /\ ~CacheHit(p)
    /\ recognizing' = {p}
    /\ \E data \in TornWrites(engine[p]) : ocr' = [ocr EXCEPT ![p] = Record(data)]
    /\ last' = [page |-> p, outcome |-> "crash", ret |-> <<>>, invoked |-> 1]
    /\ UNCHANGED anyFail

\* ocr_single_page called for page p outside any run of process_pages
OcrSinglePage(p) ==
    /\ run.tool = "plain" /\ run.pc # "loop"
    /\ \/ SingleHit(p)
       \/ SingleRecognized(p)
       \/ SingleFailed(p)
    /\ UNCHANGED <<engine, run, prev, storeVars, scanVars, workers>>

\* the process dies inside that call
OcrSinglePageCrash(p) ==
    /\ run.tool = "plain" /\ run.pc # "loop"
    /\ SingleCrashed(p)
    /\ UNCHANGED <<engine, run, prev, storeVars, scanVars, workers>>

\* SpecCall: a client calls ocr_single_page page by page; prev keeps the
\* call before the last one
ClientCall(p) ==
    /\ \/ SingleHit(p)
       \/ SingleRecognized(p)
       \/ SingleFailed(p)
    /\ prev' = last
    /\ UNCHANGED <<engine, run, storeVars, scanVars, workers>>

ClientCrash(p) ==
    /\ SingleCrashed(p)
    /\ prev' = last
    /\ UNCHANGED <<engine, run, storeVars, scanVars, workers>>

\* ---- ocr_image_enhanced + the write of extract_epub_enhanced.process_pages ----

\* lines 152-156: recognition succeeds and the text is written
EnhancedRecognized(p) ==
    /\ recognizing' = {p}
    /\ ocr' = [ocr EXCEPT ![p] = Record(WriteText(engine[p]))]
    /\ last' = [page |-> p, outcome |-> "ok", ret |-> engine[p], invoked |-> 1]
    /\ UNCHANGED anyFail

\* lines 77-79 then 155-156: ocr_image_enhanced prints the warning and returns
\* "", and process_pages writes that "" as the page's record
EnhancedFailed(p) ==
    /\ recognizing' = {p}
    /\ ocr' = [ocr EXCEPT ![p] = Record(WriteText(<<>>))]
    /\ last' = [page |-> p, outcome |-> "ocr_fail", ret |-> <<>>, invoked |-> 1]
    /\ anyFail' = TRUE

\* lines 155-156 cut short by the death of the process
EnhancedCrashed(p) ==
    /\ recognizing' = {p}
    /\ \E data \in TornWrites(engine[p]) : ocr' = [ocr EXCEPT ![p] = Record(data)]
    /\ last' = [page |-> p, outcome |-> "crash", ret |-> <<>>, invoked |-> 1]
    /\ UNCHANGED anyFail

\* ---- process_pages(epub_path, output_dir, start_page, end_page) ----

\* In Spec every page 1..MaxPage has an image, so image_files is
\* <<(1, ..), .., (MaxPage, ..)>>; SpecStore models how the list is built.
CacheImageFiles == [i \in 1..MaxPage |-> i]

\* main() + the set-up of process_pages, up to the loop over image_files
ProcessPagesStart(s, e) ==
    /\ run.pc # "loop"
    /\ run' = [run EXCEPT !.pc = "loop", !.start_page = s, !.end_page = e,
                          !.i = 1, !.processed = 0, !.skipped = 0,
                          !.redone = FALSE]
    /\ recognizing' = {}
    /\ UNCHANGED <<engine, ocr, last, prev, anyFail, storeVars, scanVars, workers>>

CurPage == CacheImageFiles[run.i]
InLoop == run.pc = "loop" /\ run.i <= Len(CacheImageFiles)
OutOfRange(p) == p < run.start_page \/ p > run.end_page

\* `if page_num < start_page or page_num > end_page: continue`
PageOutOfRange ==
    /\ InLoop
    /\ OutOfRange(CurPage)
    /\ run' = [run EXCEPT !.i = @ + 1]
    /\ recognizing' = {}
    /\ UNCHANGED <<engine, ocr, last, prev, anyFail, storeVars, scanVars, workers>>

\* `if os.path.exists(ocr_file)`: the page is skipped
PageSkipped ==
    /\ InLoop
    /\ ~OutOfRange(CurPage)
    /\ CacheHit(CurPage)
    /\ run' = [run EXCEPT !.i = @ + 1, !.skipped = @ + 1]
    /\ recognizing' = {}
    /\ UNCHANGED <<engine, ocr, last, prev, anyFail, storeVars, scanVars, workers>>

\* epub_extractor: `text = ocr_single_page(img_path, ocr_dir, page_num)`
PagePlain ==
    /\ InLoop /\ run.tool = "plain"
    /\ ~OutOfRange(CurPage)
    /\ ~CacheHit(CurPage)
    /\ \/ SingleHit(CurPage)
       \/ SingleRecognized(CurPage)
       \/ SingleFailed(CurPage)
    /\ run' = [run EXCEPT !.i = @ + 1, !.processed = @ + 1,
                          !.redone = @ \/ (ocr[CurPage].exists /\ recognizing' # {})]
    /\ UNCHANGED <<engine, prev, storeVars, scanVars, workers>>

\* extract_epub_enhanced: `text = ocr_image_enhanced(img_path)` and the write
PageEnhanced ==
    /\ InLoop /\ run.tool = "enhanced"
    /\ ~OutOfRange(CurPage)
    /\ ~CacheHit(CurPage)
    /\ \/ EnhancedRecognized(CurPage)
       \/ EnhancedFailed(CurPage)
    /\ run' = [run EXCEPT !.i = @ + 1, !.processed = @ + 1,
                          !.redone = @ \/ ocr[CurPage].exists]
    /\ UNCHANGED <<engine, prev, storeVars, scanVars, workers>>

\* the process dies while it writes the record of the current page
PageCrash ==
    /\ InLoop
    /\ ~OutOfRange(CurPage)
    /\ ~CacheHit(CurPage)
    /\ \/ run.tool = "plain" /\ SingleCrashed(CurPage)
       \/ run.tool = "enhanced" /\ EnhancedCrashed(CurPage)
    /\ run' = [Idle EXCEPT !.tool = run.tool, !.resumed = TRUE]
    /\ UNCHANGED <<engine, prev, storeVars, scanVars, workers>>

\* the run is interrupted between two pages (Ctrl-C, kill)
Interrupt ==
    /\ InLoop
    /\ run' = [Idle EXCEPT !.tool = run.tool, !.resumed = TRUE]
    /\ recognizing' = {}
    /\ UNCHANGED <<engine, ocr, last, prev, anyFail, storeVars, scanVars, workers>>

\* the loop is over: the summary is printed
ProcessPagesDone ==
    /\ run.pc = "loop" /\ run.i > Len(CacheImageFiles)
    /\ run' = [run EXCEPT !.pc = "done"]
    /\ recognizing' = {}
    /\ UNCHANGED <<engine, ocr, last, prev, anyFail, storeVars, scanVars, workers>>

(***************************************************************************)
(* PAGE STORE  (extract_all_images / extract_images_from_epub and the      *)
(* resume branch of process_pages)                                         *)
(***************************************************************************)
MaxEntries == 2     \* entries of the container
MaxIndex == 2       \* largest number N of an "index-N" entry name
FmtWidth == 4       \* f"page_{page_num:04d}"

\* suffixes of the entry names; the first three pass
\* name.lower().endswith(('.png', '.jpg', '.jpeg'))
ImageExts == {".png", ".jpg", ".jpeg"}
Exts == ImageExts \cup {".xhtml"}
NoIndex == 0 - 1    \* re.search(r'index-(\d+)', name) finds nothing

\* an entry of epub.namelist(): the number after "index-", Path(name).suffix
\* and epub.read(name)
Entries == [index : {NoIndex} \cup (1..MaxIndex), ext : Exts, data : {"A", "B"}]

DigitChar == <<"0", "1", "2", "3", "4", "5", "6", "7", "8", "9">>

RECURSIVE Digits(_)
Digits(n) ==
    IF n < 10 THEN <<DigitChar[n + 1]>>
    ELSE Digits(n \div 10) \o <<DigitChar[(n % 10) + 1]>>

RECURSIVE ZeroPad(_, _)
ZeroPad(ds, width) == IF Len(ds) >= width THEN ds ELSE ZeroPad(<<"0">> \o ds, width)

\* f"{page_num:04d}"
Fmt04(n) == ZeroPad(Digits(n), FmtWidth)

DigitValue(c) == CHOOSE k \in 0..9 : DigitChar[k + 1] = c

\* int(match.group(1))
RECURSIVE ParseInt(_)
ParseInt(ds) ==
    IF ds = <<>> THEN 0
    ELSE 10 * ParseInt(SubSeq(ds, 1, Len(ds) - 1)) + DigitValue(ds[Len(ds)])

\* output_path: images_dir/page_NNNN<ext>
PagePath(n, ext) == [stem |-> Fmt04(n), ext |-> ext]

\* the characters of a file name after "page_", for the order of sorted()
ExtChars(ext) ==
    CASE ext = ".png"   -> <<".", "p", "n", "g">>
      [] ext = ".jpg"   -> <<".", "j", "p", "g">>
      [] ext = ".jpeg"  -> <<".", "j", "p", "e", "g">>
      [] ext = ".txt"   -> <<".", "t", "x", "t">>
      [] OTHER          -> <<".", "x", "h", "t", "m", "l">>
NameChars(path) == path.stem \o ExtChars(path.ext)

\* ord(c) of the characters file names are made of
Ord(c) ==
    CASE c = "." -> 46
      [] c \in {DigitChar[k] : k \in 1..10} -> 48 + DigitValue(c)
      [] c = "e" -> 101 [] c = "g" -> 103 [] c = "h" -> 104 [] c = "j" -> 106
      [] c = "l" -> 108 [] c = "m" -> 109 [] c = "n" -> 110 [] c = "p" -> 112
      [] c = "t" -> 116 [] c = "x" -> 120

\* str < str
RECURSIVE LexLess(_, _)
LexLess(a, b) ==
    IF b = <<>> THEN FALSE
    ELSE IF a = <<>> THEN TRUE
    ELSE IF Head(a) # Head(b) THEN Ord(Head(a)) < Ord(Head(b))
    ELSE LexLess(Tail(a), Tail(b))

\* image_files.sort(key=lambda x: x[0]): a stable sort by page number
RECURSIVE InsertByPageNum(_, _)
InsertByPageNum(sorted, x) ==
    IF sorted = <<>> THEN <<x>>
    ELSE IF x.page_num < Head(sorted).page_num THEN <<x>> \o sorted
    ELSE <<Head(sorted)>> \o InsertByPageNum(Tail(sorted), x)

RECURSIVE SortByPageNum(_)
SortByPageNum(seq) ==
    IF seq = <<>> THEN <<>>
    ELSE InsertByPageNum(SortByPageNum(SubSeq(seq, 1, Len(seq) - 1)), seq[Len(seq)])

\* `if name.lower().endswith(..)` and `if match`
IsPageImage(entry) == entry.ext \in ImageExts /\ entry.index # NoIndex

\* open(output_path, 'wb').write(data): the file is created or overwritten
WriteFile(dir, path, data) ==
    {f \in dir : f.path # path} \cup {[path |-> path, data |-> data]}

\* the body of `for name in epub.namelist()` for one entry
ExtractedDir(dir, entry) ==
    IF IsPageImage(entry)
    THEN WriteFile(dir, PagePath(entry.index, entry.ext), entry.data)
    ELSE dir

Appended(list, entry) ==
    IF IsPageImage(entry)
    THEN Append(list, [page_num |-> entry.index,
                       path |-> PagePath(entry.index, entry.ext)])
    ELSE list

\* extract_all_images run to its end on an empty directory: the list it
\* returns and the directory it leaves
RECURSIVE FreshList(_)
FreshList(names) ==
    IF names = <<>> THEN <<>>
    ELSE Appended(FreshList(SubSeq(names, 1, Len(names) - 1)), names[Len(names)])

RECURSIVE FreshDir(_)
FreshDir(names) ==
    IF names = <<>> THEN {}
    ELSE ExtractedDir(FreshDir(SubSeq(names, 1, Len(names) - 1)), names[Len(names)])

ExtractAllImages(names) == SortByPageNum(FreshList(names))

\* Path(images_dir).glob("page_*.png") + Path(images_dir).glob("page_*.jpg")
Glob(dir) == {f.path : f \in {g \in dir : g.path.ext \in {".png", ".jpg"}}}

\* sorted(existing_images): the paths in the order of their names
RECURSIVE SortedPaths(_)
SortedPaths(paths) ==
    IF paths = {} THEN <<>>
    ELSE LET least == CHOOSE x \in paths :
                        \A y \in paths \ {x} : LexLess(NameChars(x), NameChars(y))
         IN  <<least>> \o SortedPaths(paths \ {least})

\* lines 96-102: re.search(r'page_(\d+)', name), int(..), append, sort
ResumeList(dir) ==
    LET paths == SortedPaths(Glob(dir))
        listed == [i \in 1..Len(paths) |->
                     [page_num |-> ParseInt(paths[i].stem), path |-> paths[i]]]
    IN  SortByPageNum(listed)

DataAt(dir, path) == {f.data : f \in {g \in dir : g.path = path}}

NoBranch == [kind |-> "none", pc |-> "idle", k |-> 0]

StoreInit ==
    /\ container \in SeqsUpTo(Entries, MaxEntries)
    /\ images = {}
    /\ image_files = <<>>
    /\ branch = NoBranch

StoreUnused ==
    /\ container = <<>>
    /\ images = {}
    /\ image_files = <<>>
    /\ branch = NoBranch

\* process_pages, `if not existing_images`: extract_all_images starts
ExtractBegin ==
    /\ branch.pc # "extract"
    /\ Glob(images) = {}
    /\ image_files' = <<>>
    /\ branch' = [kind |-> "fresh", pc |-> "extract", k |-> 1]
    /\ UNCHANGED <<container, images, cacheVars, scanVars, workers>>

\* one pass of `for name in epub.namelist()`
ExtractEntry ==
    /\ branch.pc = "extract" /\ branch.k <= Len(container)
    /\ images' = ExtractedDir(images, container[branch.k])
    /\ image_files' = Appended(image_files, container[branch.k])
    /\ branch' = [branch EXCEPT !.k = @ + 1]
    /\ UNCHANGED <<container, cacheVars, scanVars, workers>>

\* `image_files.sort(key=lambda x: x[0]); return image_files`
ExtractReturn ==
    /\ branch.pc = "extract" /\ branch.k > Len(container)
    /\ image_files' = SortByPageNum(image_files)
    /\ branch' = [branch EXCEPT !.pc = "done"]
    /\ UNCHANGED <<container, images, cacheVars, scanVars, workers>>

\* the run stops inside the extraction, some images written
ExtractKilled ==
    /\ branch.pc = "extract"
    /\ image_files' = <<>>
    /\ branch' = [kind |-> "none", pc |-> "idle", k |-> branch.k]
    /\ UNCHANGED <<container, images, cacheVars, scanVars, workers>>

\* process_pages, the else branch: the list is built from the directory
ResumeFromDisk ==
    /\ branch.pc # "extract"
    /\ Glob(images) # {}
    /\ image_files' = ResumeList(images)
    /\ branch' = [kind |-> "resume", pc |-> "done", k |-> branch.k]
    /\ UNCHANGED <<container, images, cacheVars, scanVars, workers>>

NextStore ==
    \/ ExtractBegin
    \/ ExtractEntry
    \/ ExtractReturn
    \/ ExtractKilled
    \/ ResumeFromDisk

(***************************************************************************)
(* TEXT  (the regular expressions and string methods of the scripts)       *)
(*                                                                         *)
(* A text is a sequence of characters, each character a string.  ASCII     *)
(* characters stand for themselves; the others are written in pinyin:      *)
(*   "di" 第   "zhang" 章  "jie" 节  "pian" 篇  "bu" 部  "juan" 卷  "hui" 回 *)
(*   "yi" 一 "er" 二 "san" 三 "si" 四 "wu" 五 "liu" 六 "qi" 七 "ba" 八     *)
(*   "jiu" 九 "shi" 十 "bai" 百 "qian" 千 "ling" 零                        *)
(*   "mu" 目  "lu" 录  "ci" 次  "hellip" …  "dun" 、                       *)
(*   "qian2" 前 "yan" 言 "xu" 序 "yin" 引 "dao" 导 "lun" 论 "bang" 绑      *)
(*   "jie2" 结 "yu" 语 "hou" 后 "ji" 记 "fu" 附                            *)
(*   "han1" "han2": two characters that occur in no pattern (绪, 方 ..)    *)
(***************************************************************************)
WS == {" ", "\t", "\n", "\r", "\f"}                       \* \s
DigitChars == {DigitChar[k] : k \in 1..10}                \* \d
DotChars == {".", "hellip"}                               \* [\.\…]
CnNumerals == {"yi", "er", "san", "si", "wu", "liu", "qi", "ba", "jiu",
               "shi", "bai", "qian"}
Numerals == CnNumerals \cup DigitChars                    \* [一二三四五六七八九十百千\d]
NumeralsZero == Numerals \cup {"ling"}                    \* [一二三四五六七八九十百千零\d]
Units == {"zhang", "jie", "pian", "bu", "juan", "hui"}    \* [章节篇部卷回]
UnitZhang == {"zhang"}                                    \* 章
UpperLetters == <<"A", "B", "C", "D", "E", "F", "G", "H", "I", "J", "K", "L", "M",
                  "N", "O", "P", "Q", "R", "S", "T", "U", "V", "W", "X", "Y", "Z">>
LowerLetters == <<"a", "b", "c", "d", "e", "f", "g", "h", "i", "j", "k", "l", "m",
                  "n", "o", "p", "q", "r", "s", "t", "u", "v", "w", "x", "y", "z">>
IsUpper(c) == \E k \in 1..26 : UpperLetters[k] = c        \* [A-Z]
ToLower(c) == IF IsUpper(c)
              THEN LowerLetters[CHOOSE k \in 1..26 : UpperLetters[k] = c]
              ELSE c

\* character classes of the patterns: the characters listed, or all but them
Class(chars) == [negated |-> FALSE, chars |-> chars]
NotClass(chars) == [negated |-> TRUE, chars |-> chars]
InClass(c, cls) == (c \in cls.chars) <=> ~cls.negated

AnyChar == NotClass({})                                   \* [\s\S]
NotNewline == NotClass({"\n"})                            \* [^\n]
NotDigit == NotClass(DigitChars)                          \* [^\d]
NotNewlineDigit == NotClass({"\n"} \cup DigitChars)       \* [^\n\d]
IsWS == Class(WS)                                         \* \s
IsDigit == Class(DigitChars)                              \* \d
IsDot == Class(DotChars)                                  \* [\.\…]
IsLowerCase == Class({LowerLetters[k] : k \in 1..26})     \* [a-z]

\* text[from:] as a sequence
From(text, i) == SubSeq(text, i, Len(text))

\* the length of the longest run of at most max characters of class cls
\* that starts at position i (a greedy cls{0,max})
RECURSIVE RunLen(_, _, _, _)
RunLen(cls, text, i, max) ==
    IF max = 0 \/ i > Len(text) \/ ~InClass(text[i], cls) THEN 0
    ELSE 1 + RunLen(cls, text, i + 1, max - 1)

Unbounded(text) == Len(text)

\* str.strip()
RECURSIVE LStrip(_)
LStrip(t) == IF t # <<>> /\ Head(t) \in WS THEN LStrip(Tail(t)) ELSE t

RECURSIVE RStrip(_)
RStrip(t) == IF t # <<>> /\ t[Len(t)] \in WS THEN RStrip(SubSeq(t, 1, Len(t) - 1)) ELSE t

Strip(t) == RStrip(LStrip(t))

\* re.sub(r'\s+', ' ', t)
RECURSIVE CollapseWS(_)
CollapseWS(t) ==
    IF t = <<>> THEN <<>>
    ELSE IF Head(t) \in WS
         THEN <<" ">> \o CollapseWS(From(t, 1 + RunLen(IsWS, t, 1, Unbounded(t))))
         ELSE <<Head(t)>> \o CollapseWS(Tail(t))

\* str.replace('\n', ' ')
ReplaceNewlines(t) == [k \in 1..Len(t) |-> IF t[k] = "\n" THEN " " ELSE t[k]]

\* re.sub(r'[…\.]{minRun,}.*$', '', t) for a t without "\n": t is cut at the
\* first run of at least minRun dot characters
RECURSIVE CutAtDotsFrom(_, _, _)
CutAtDotsFrom(t, i, minRun) ==
    IF i > Len(t) THEN t
    ELSE IF RunLen(IsDot, t, i, Unbounded(t)) >= minRun THEN SubSeq(t, 1, i - 1)
    ELSE CutAtDotsFrom(t, i + 1, minRun)

CutAtDots(t, minRun) == CutAtDotsFrom(t, 1, minRun)

\* re.sub(r'\(\d+\)$', '', t) for a t without "\n"
StripPageNumber(t) ==
    IF t # <<>> /\ t[Len(t)] = ")"
    THEN LET body == SubSeq(t, 1, Len(t) - 1)
             noDigits == CHOOSE k \in 0..Len(body) :
                            /\ \A m \in (k + 1)..Len(body) : body[m] \in DigitChars
                            /\ (k = 0 \/ body[k] \notin DigitChars)
         IN  IF noDigits < Len(body) /\ noDigits >= 1 /\ body[noDigits] = "("
             THEN SubSeq(body, 1, noDigits - 1)
             ELSE t
    ELSE t

\* text.split('\n')
RECURSIVE SplitLines(_)
SplitLines(t) ==
    LET n == RunLen(NotNewline, t, 1, Unbounded(t))
    IN  IF n = Len(t) THEN <<t>>
        ELSE <<SubSeq(t, 1, n)>> \o SplitLines(From(t, n + 2))

\* sep.join(parts)
RECURSIVE Join(_, _)
Join(sep, parts) ==
    IF parts = <<>> THEN <<>>
    ELSE IF Len(parts) = 1 THEN parts[1]
    ELSE parts[1] \o sep \o Join(sep, Tail(parts))

\* seq[:n]
Take(seq, n) == SubSeq(seq, 1, Min(n, Len(seq)))

\* `literal in text` at position i, and anywhere
MatchesAt(text, i, literal) ==
    /\ i + Len(literal) - 1 <= Len(text)
    /\ \A k \in 1..Len(literal) : text[i + k - 1] = literal[k]

HasLiteral(text, literal) == \E i \in 1..Len(text) : MatchesAt(text, i, literal)

\* 第[nums]+[units] at position i: the position after the unit word, 0 when
\* there is no match (a numeral is never a unit word, so the greedy run of
\* numerals is the only candidate)
ChapterHeadEnd(text, i, nums, units) ==
    IF i <= Len(text) /\ text[i] = "di"
    THEN LET n == RunLen(Class(nums), text, i + 1, Unbounded(text))
         IN  IF n >= 1 /\ i + 1 + n <= Len(text) /\ text[i + 1 + n] \in units
             THEN i + n + 2
             ELSE 0
    ELSE 0

\* 第[nums]+[units][trail]{0,maxTrail} at position i: the position after the
\* match, 0 when there is no match
ChapterMatchEnd(trail, text, i, nums, units, maxTrail) ==
    LET e == ChapterHeadEnd(text, i, nums, units)
    IN  IF e = 0 THEN 0 ELSE e + RunLen(trail, text, e, maxTrail)

\* re.findall of that pattern from position i on: the matches, left to
\* right, each search resuming where the last match ended
RECURSIVE ChapterFindAll(_, _, _, _, _, _)
ChapterFindAll(trail, text, i, nums, units, maxTrail) ==
    IF i > Len(text) THEN <<>>
    ELSE LET e == ChapterMatchEnd(trail, text, i, nums, units, maxTrail)
         IN  IF e = 0 THEN ChapterFindAll(trail, text, i + 1, nums, units, maxTrail)
             ELSE <<SubSeq(text, i, e - 1)>>
                  \o ChapterFindAll(trail, text, e, nums, units, maxTrail)

\* re.search of that pattern: <<the match>>, or <<>> for None
RECURSIVE ChapterSearch(_, _, _, _, _, _)
ChapterSearch(trail, text, i, nums, units, maxTrail) ==
    IF i > Len(text) THEN <<>>
    ELSE LET e == ChapterMatchEnd(trail, text, i, nums, units, maxTrail)
         IN  IF e = 0 THEN ChapterSearch(trail, text, i + 1, nums, units, maxTrail)
             ELSE <<SubSeq(text, i, e - 1)>>

\* `x not in list` then `list.append(x)`
AppendNew(list, x) == IF Contains(list, x) THEN list ELSE Append(list, x)

(***************************************************************************)
(* TITLE EXTRACTION AND PAGE CLASSIFICATION                                *)
(***************************************************************************)
TocLineThreshold == 5     \* lines_with_numbers >= 5
TocTrail == 30            \* [^\d]{0,30} of extract_toc_entries
TocMinLen == 3            \* len(title) > 3
OcrTrail == 30            \* [^\n\d]{0,30} of extract_chapters_from_ocr
OcrMinLen == 3            \* len(title) > 3
OcrMaxLen == 50           \* len(title) < 50
CleanTrail == 50          \* [\s\S]{0,50} of extract_chapter_titles_clean
CleanMinLen == 3          \* len(clean) > 3
PageTrail == 30           \* [^\n]{0,30} of extract_chapter_from_page
PageHeadLines == 5        \* lines[:5]
V1Trail == 30             \* [\s\S]{0,30} of extract_chapter_titles
V1NumberedMin == 2        \* [^\n]{2,20}
V1NumberedMax == 20
V1MinLen == 1             \* len(clean) > 1
V1TocCount == 3           \* len(chapters) >= 3
V1HeadLines == 3          \* lines[:3]
V1PageTrail == 30         \* [^\n]{0,30} of scan_all_pages_for_chapters

\* ---- extract_toc.py ----

\* re.search(r'目\s*录|目\s*次|CONTENTS', text, re.IGNORECASE)
HasTocMarker(text) ==
    \/ \E i \in 1..Len(text) :
          /\ text[i] = "mu"
          /\ LET j == i + 1 + RunLen(IsWS, text, i + 1, Unbounded(text))
             IN  j <= Len(text) /\ text[j] \in {"lu", "ci"}
    \/ \E i \in 1..Len(text) :
          MatchesAt([k \in 1..Len(text) |-> ToLower(text[k])], i,
                    <<"c", "o", "n", "t", "e", "n", "t", "s">>)

\* len(re.findall(r'[^\n]+\d+\s*$', text, re.MULTILINE)): a match never
\* crosses into the text of another line (\s* can only take the line ends
\* and blank lines that follow), so the matches are the lines that end in a
\* digit, with a character before it, up to trailing white space
NumberedLine(line) ==
    LET r == RStrip(line) IN Len(r) >= 2 /\ r[Len(r)] \in DigitChars

LinesWithNumbers(text) ==
    LET lines == SplitLines(text)
    IN  Cardinality({k \in 1..Len(lines) : NumberedLine(lines[k])})

\* is_toc_page(text)
IsTocPageAlways(text) == TRUE
IsTocPage(text) ==
    HasTocMarker(text) \/ LinesWithNumbers(text) >= TocLineThreshold

\* [\.\…]+\s*\(?\d+\)?$ matches the whole of s
IsTocTail(s) ==
    LET d == RunLen(IsDot, s, 1, Unbounded(s))
        w == RunLen(IsWS, s, d + 1, Unbounded(s))
        p == d + w + 1
        q == IF p <= Len(s) /\ s[p] = "(" THEN p + 1 ELSE p
        g == RunLen(IsDigit, s, q, Unbounded(s))
        r == q + g
        e == IF r <= Len(s) /\ s[r] = ")" THEN r + 1 ELSE r
    IN  d >= 1 /\ g >= 1 /\ e = Len(s) + 1

\* the first re.match of extract_toc_entries: the end of group 1 (the
\* shortest [\s\S]*? for which the rest of the line is a TOC tail), 0 for
\* no match
TocRowEnd(line) ==
    LET e == ChapterHeadEnd(line, 1, Numerals, Units)
        tails == IF e = 0 THEN {}
                 ELSE {j \in e..Len(line) : IsTocTail(From(line, j))}
    IN  IF tails = {} THEN 0
        ELSE CHOOSE j \in tails : \A k \in tails : j <= k

\* the body of `for line in lines` of extract_toc_entries
TocEntryOfLine(entries, rawLine) ==
    LET line == Strip(rawLine)
        rowEnd == TocRowEnd(line)
        rowTitle == CollapseWS(Strip(SubSeq(line, 1, rowEnd - 1)))
        e == ChapterMatchEnd(NotDigit, line, 1, Numerals, Units, TocTrail)
        title == CollapseWS(CutAtDots(Strip(SubSeq(line, 1, e - 1)), 1))
    IN  IF line = <<>> THEN entries
        ELSE IF rowEnd # 0
             THEN IF rowTitle # <<>> THEN AppendNew(entries, rowTitle) ELSE entries
        ELSE IF e # 0 /\ Len(title) > TocMinLen THEN AppendNew(entries, title)
        ELSE entries

RECURSIVE TocEntriesOfLines(_)
TocEntriesOfLines(lines) ==
    IF lines = <<>> THEN <<>>
    ELSE TocEntryOfLine(TocEntriesOfLines(SubSeq(lines, 1, Len(lines) - 1)),
                        lines[Len(lines)])

\* extract_toc_entries(text)
ExtractTocEntries(text) == TocEntriesOfLines(SplitLines(text))

\* ---- extract_chapters.py ----

\* the body of `for match in matches` of extract_chapters_from_ocr
OcrTitleOfMatch(chapters, match) ==
    LET title == Strip(CutAtDots(CollapseWS(Strip(match)), 1))
    IN  IF title # <<>> /\ Len(title) > OcrMinLen /\ ~Contains(chapters, title)
           /\ ~Contains(title, "|") /\ Len(title) < OcrMaxLen
        THEN Append(chapters, title)
        ELSE chapters

RECURSIVE OcrTitlesOfMatches(_, _)
OcrTitlesOfMatches(chapters, matches) ==
    IF matches = <<>> THEN chapters
    ELSE OcrTitlesOfMatches(OcrTitleOfMatch(chapters, Head(matches)), Tail(matches))

\* the body of `for ocr_file in ocr_files` for one file's text
OcrChaptersOfText(chapters, text) ==
    OcrTitlesOfMatches(chapters,
        ChapterFindAll(NotNewlineDigit, text, 1, NumeralsZero, UnitZhang, OcrTrail))

\* ---- parse_epub_ocr_v2.py ----

CleanTitleOfMatch(chapters, match) ==
    LET clean == Strip(StripPageNumber(CutAtDots(CollapseWS(Strip(match)), 2)))
    IN  IF Len(clean) > CleanMinLen THEN AppendNew(chapters, clean) ELSE chapters

RECURSIVE CleanTitlesOfMatches(_, _)
CleanTitlesOfMatches(chapters, matches) ==
    IF matches = <<>> THEN chapters
    ELSE CleanTitlesOfMatches(CleanTitleOfMatch(chapters, Head(matches)), Tail(matches))

\* extract_chapter_titles_clean(text)
ExtractChapterTitlesClean(text) ==
    CleanTitlesOfMatches(<<>>,
        ChapterFindAll(AnyChar, text, 1, Numerals, UnitZhang, CleanTrail))

\* '目录' in text or '目 录' in text or '目 次' in text
IsTocV2(text) ==
    \/ HasLiteral(text, <<"mu", "lu">>)
    \/ HasLiteral(text, <<"mu", " ", "lu">>)
    \/ HasLiteral(text, <<"mu", " ", "ci">>)

\* ---- scan_chapters.py ----

\* extract_chapter_from_page(text): <<title>>, or <<>> for None
ExtractChapterFromPage(text) ==
    LET lines == SplitLines(Strip(text))
        first_lines == Join(<<" ">>, Take(lines, PageHeadLines))
        m == ChapterSearch(NotNewline, first_lines, 1, Numerals, UnitZhang, PageTrail)
    IN  IF m = <<>> THEN <<>>
        ELSE <<Strip(CutAtDots(CollapseWS(Strip(m[1])), 2))>>

\* ---- parse_epub_ocr.py ----

\* [第]?\d+[\.、\s][^\n]{2,20}
NumberedMatchEnd(text, i) ==
    LET j == IF text[i] = "di" THEN i + 1 ELSE i
        g == RunLen(IsDigit, text, j, Unbounded(text))
        sep == j + g
        n == RunLen(NotNewline, text, sep + 1, V1NumberedMax)
    IN  IF g >= 1 /\ sep <= Len(text) /\ text[sep] \in ({".", "dun"} \cup WS)
           /\ n >= V1NumberedMin
        THEN sep + 1 + n
        ELSE 0

\* (?:前言|序言|序|引言|导论|绑论|结语|后记|附录|目录)
SpecialSections ==
    << <<"qian2", "yan">>, <<"xu", "yan">>, <<"xu">>, <<"yin", "yan">>,
       <<"dao", "lun">>, <<"bang", "lun">>, <<"jie2", "yu">>, <<"hou", "ji">>,
       <<"fu", "lu">>, <<"mu", "lu">> >>

SpecialMatchEnd(text, i) ==
    LET hits == {k \in 1..Len(SpecialSections) : MatchesAt(text, i, SpecialSections[k])}
    IN  IF hits = {} THEN 0
        ELSE i + Len(SpecialSections[CHOOSE k \in hits : \A m \in hits : k <= m])

\* [A-Z][a-z]+\s+\d+
LatinMatchEnd(text, i) ==
    LET n == RunLen(IsLowerCase, text, i + 1, Unbounded(text))
        w == RunLen(IsWS, text, i + 1 + n, Unbounded(text))
        g == RunLen(IsDigit, text, i + 1 + n + w, Unbounded(text))
    IN  IF IsUpper(text[i]) /\ n >= 1 /\ w >= 1 /\ g >= 1
        THEN i + 1 + n + w + g
        ELSE 0

V1ChapterMatchEnd(text, i) ==
    ChapterMatchEnd(AnyChar, text, i, Numerals, Units, V1Trail)

\* patterns[k - 1] at position i: the position after the match, 0 for none
V1MatchEnd(k, text, i) ==
    CASE k = 1 -> V1ChapterMatchEnd(text, i)
      [] k = 2 -> NumberedMatchEnd(text, i)
      [] k = 3 -> SpecialMatchEnd(text, i)
      [] OTHER -> LatinMatchEnd(text, i)

\* re.findall(pattern, text) from position i on: the matches, left to
\* right, each search resuming where the last match ended (no pattern
\* matches the empty string)
RECURSIVE V1FindAll(_, _, _)
V1FindAll(k, text, i) ==
    IF i > Len(text) THEN <<>>
    ELSE LET e == V1MatchEnd(k, text, i)
         IN  IF e = 0 THEN V1FindAll(k, text, i + 1)
             ELSE <<SubSeq(text, i, e - 1)>> \o V1FindAll(k, text, e)

\* the body of `for match in matches` of extract_chapter_titles
V1TitleOfMatch(chapters, match) ==
    LET clean == ReplaceNewlines(Strip(match))
    IN  IF Len(clean) > V1MinLen THEN AppendNew(chapters, clean) ELSE chapters

RECURSIVE V1TitlesOfMatches(_, _)
V1TitlesOfMatches(chapters, matches) ==
    IF matches = <<>> THEN chapters
    ELSE V1TitlesOfMatches(V1TitleOfMatch(chapters, Head(matches)), Tail(matches))

\* extract_chapter_titles(text): the four patterns in turn
ExtractChapterTitles(text) ==
    LET c1 == V1TitlesOfMatches(<<>>, V1FindAll(1, text, 1))
        c2 == V1TitlesOfMatches(c1, V1FindAll(2, text, 1))
        c3 == V1TitlesOfMatches(c2, V1FindAll(3, text, 1))
    IN  V1TitlesOfMatches(c3, V1FindAll(4, text, 1))

\* '目录' in text or '目 录' in text
IsTocV1(text) ==
    HasLiteral(text, <<"mu", "lu">>) \/ HasLiteral(text, <<"mu", " ", "lu">>)

\* scan_all_pages_for_chapters, from `lines = ..` to chapter_name:
\* <<chapter_name>>, or <<>> when the first lines do not open with a chapter
ChapterNameV1(text) ==
    LET lines == SplitLines(Strip(text))
        first_lines == Join(<<" ">>, Take(lines, V1HeadLines))
        ws == RunLen(IsWS, first_lines, 1, Unbounded(first_lines))
        m == ChapterSearch(NotNewline, first_lines, 1, Numerals, Units, V1PageTrail)
    IN  IF ChapterHeadEnd(first_lines, 1 + ws, Numerals, Units) # 0 /\ m # <<>>
        THEN <<Strip(m[1])>>
        ELSE <<>>

\* `for ch in all_chapters: if ch not in seen: ..`
RECURSIVE Unique(_)
Unique(list) ==
    IF list = <<>> THEN <<>>
    ELSE AppendNew(Unique(SubSeq(list, 1, Len(list) - 1)), list[Len(list)])

(***************************************************************************)
(* SCANS  (scan_for_toc, find_toc_pages, find_toc_and_extract_chapters,    *)
(* scan_all_pages, scan_all_pages_for_chapters, extract_chapters_from_ocr, *)
(* and the page range of process_pages)                                    *)
(*                                                                         *)
(* book is the ordered page sequence a scan is given, each page with the   *)
(* text the engine recognizes on it; scan is the running call: its page    *)
(* list, position, accumulator, result, and a log of what happened page by *)
(* page.                                                                   *)
(***************************************************************************)
MaxBook == 2
SmallWindow == 1
ScanForTocMaxPages == 30
FindTocPagesMaxPages == 20
FindTocAndExtractMaxPages == 25
DefaultEndPage == 20
DefaultStartPage == 1

ScanPageNums == {1, 2000, 10000}

\* the texts a page can read as: a blank page; prose with a running header
\* that mentions a chapter; a table of contents with dotted rows, one of them
\* "di 1 zhang" alone; a table of contents without dots; the opening page
\* of a chapter; five numbered rows with no chapter pattern
PageTexts ==
    { <<>>,
      <<"han1", "han2", " ", "di", "yi", "zhang", "|", "han2">>,
      <<"mu", "lu", "\n",
        "di", "yi", "zhang", " ", "han1", "han2", ".", ".", ".", ".", "3", "\n",
        "di", "1", "zhang", ".", ".", "5">>,
      <<"mu", " ", "lu", "\n",
        "di", "yi", "zhang", " ", "han1", "han2", "\n",
        "di", "er", "zhang", " ", "han2", "han1", "(", "1", "2", ")">>,
      <<"di", "san", "zhang", " ", "han2", "han1", "\n", "han1", "han2">>,
      <<"a", " ", "1", "\n", "b", " ", "2", "\n", "c", " ", "3", "\n",
        "d", " ", "4", "\n", "e", " ", "5">> }

TocTools == {"scan_for_toc", "find_toc_pages", "find_toc_and_extract_chapters"}
FullScanTools == {"scan_all_pages", "scan_all_pages_for_chapters"}
\* the calls that take a bound on the pages: max_pages, or end_page
WindowTools == TocTools \cup {"process_pages"}
ScanTools == WindowTools \cup FullScanTools \cup {"extract_chapters_from_ocr"}

DefaultMaxPages(tool) ==
    CASE tool = "scan_for_toc" -> ScanForTocMaxPages
      [] tool = "find_toc_pages" -> FindTocPagesMaxPages
      [] tool = "find_toc_and_extract_chapters" -> FindTocAndExtractMaxPages
      [] tool = "process_pages" -> DefaultEndPage
      [] OTHER -> 0

\* the page numbers of a book of n pages: ascending, gaps allowed
Numberings(n) ==
    {f \in [1..n -> ScanPageNums] : \A i, j \in 1..n : i < j => f[i] < f[j]}

Books ==
    UNION {{[i \in 1..n |-> [page_num |-> f[i], text |-> t[i]]] :
               f \in Numberings(n), t \in [1..n -> PageTexts]} :
           n \in 0..Min(MaxBook, Cardinality(ScanPageNums))}

NoScan == [tool |-> "none", pc |-> "idle", max_pages |-> 0, pages |-> <<>>, i |-> 0,
           acc |-> <<>>, result |-> <<>>, log |-> <<>>]

ScanInit == book \in Books /\ scan = NoScan

\* ocr_files = sorted(Path(ocr_dir).glob("page_*.txt")): the records of the
\* book's pages in the order of their names
TxtPath(page) == PagePath(page.page_num, ".txt")

RECURSIVE InsertByTxtPath(_, _)
InsertByTxtPath(sorted, x) ==
    IF sorted = <<>> THEN <<x>>
    ELSE IF LexLess(NameChars(TxtPath(x)), NameChars(TxtPath(Head(sorted))))
         THEN <<x>> \o sorted
    ELSE <<Head(sorted)>> \o InsertByTxtPath(Tail(sorted), x)

RECURSIVE OcrFiles(_)
OcrFiles(pages) ==
    IF pages = <<>> THEN <<>>
    ELSE InsertByTxtPath(OcrFiles(SubSeq(pages, 1, Len(pages) - 1)), pages[Len(pages)])

\* the call: image_files[:max_pages], image_files, or the sorted records
ScanBegin ==
    /\ scan.pc = "idle"
    /\ \E tool \in ScanTools :
         \E max_pages \in {SmallWindow, DefaultMaxPages(tool)} :
            /\ tool \notin WindowTools => max_pages = 0
            /\ scan' = [NoScan EXCEPT
                          !.tool = tool,
                          !.max_pages = max_pages,
                          !.pc = "loop",
                          !.i = 1,
                          !.pages = CASE tool \in TocTools -> Take(book, max_pages)
                                      [] tool \in FullScanTools -> book
                                      [] tool = "process_pages" -> book
                                      [] OTHER -> OcrFiles(book)]
    /\ UNCHANGED <<book, cacheVars, storeVars, workers>>

AtPage(tool) == scan.tool = tool /\ scan.pc = "loop" /\ scan.i <= Len(scan.pages)
LoopOver(tool) == scan.tool = tool /\ scan.pc = "loop" /\ scan.i > Len(scan.pages)

\* ocr_image(img_path): the recognized text, "" when anything raised
OcrImage(page, failed) == IF failed THEN <<>> ELSE page.text

\* one iteration: the accumulator grows by `added`, the log by one entry
Iterate(failed, label, titles, added) ==
    scan' = [scan EXCEPT
               !.i = @ + 1,
               !.acc = @ \o added,
               !.log = Append(@, [page_num |-> scan.pages[scan.i].page_num,
                                  failed |-> failed,
                                  label |-> label,
                                  titles |-> titles,
                                  added |-> Len(added)])]

Return(result) == scan' = [scan EXCEPT !.pc = "done", !.result = result]

\* scan_for_toc, the body of the loop
ScanForTocPage ==
    /\ AtPage("scan_for_toc")
    /\ \E failed \in BOOLEAN :
         LET text == OcrImage(scan.pages[scan.i], failed)
             chapters == ExtractTocEntries(text)
         IN  IF IsTocPage(text)
             THEN Iterate(failed, "TableOfContents", chapters, chapters)
             ELSE Iterate(failed, "Content", <<>>, <<>>)
    /\ UNCHANGED <<book, cacheVars, storeVars, workers>>

\* scan_for_toc, after the loop: the duplicates are dropped
ScanForTocReturn ==
    /\ LoopOver("scan_for_toc")
    /\ Return(Unique(scan.acc))
    /\ UNCHANGED <<book, cacheVars, storeVars, workers>>

\* find_toc_pages, the body of the loop
FindTocPagesPage ==
    /\ AtPage("find_toc_pages")
    /\ \E failed \in BOOLEAN :
         LET text == OcrImage(scan.pages[scan.i], failed)
             chapters == ExtractChapterTitles(text)
         IN  IF IsTocV1(text) \/ Len(chapters) >= V1TocCount
             THEN Iterate(failed, "TableOfContents", chapters, chapters)
             ELSE Iterate(failed, "Content", chapters, <<>>)
    /\ UNCHANGED <<book, cacheVars, storeVars, workers>>

\* find_toc_pages returns toc_chapters as accumulated
FindTocPagesReturn ==
    /\ LoopOver("find_toc_pages")
    /\ Return(scan.acc)
    /\ UNCHANGED <<book, cacheVars, storeVars, workers>>

\* find_toc_and_extract_chapters, the body of the loop
FindTocAndExtractPage ==
    /\ AtPage("find_toc_and_extract_chapters")
    /\ \E failed \in BOOLEAN :
         LET text == OcrImage(scan.pages[scan.i], failed)
             chapters == ExtractChapterTitlesClean(text)
         IN  Iterate(failed,
                     IF IsTocV2(text) THEN "TableOfContents" ELSE "Content",
                     chapters, chapters)
    /\ UNCHANGED <<book, cacheVars, storeVars, workers>>

FindTocAndExtractReturn ==
    /\ LoopOver("find_toc_and_extract_chapters")
    /\ Return(Unique(scan.acc))
    /\ UNCHANGED <<book, cacheVars, storeVars, workers>>

\* scan_all_pages, the body of the loop
ScanAllPagesPage ==
    /\ AtPage("scan_all_pages")
    /\ \E failed \in BOOLEAN :
         LET page == scan.pages[scan.i]
             chapter == ExtractChapterFromPage(OcrImage(page, failed))
         IN  IF chapter # <<>> /\ chapter[1] # <<>>
             THEN Iterate(failed, "ChapterStart", chapter,
                          <<[page_num |-> page.page_num, chapter |-> chapter[1]]>>)
             ELSE Iterate(failed, "Content", chapter, <<>>)
    /\ UNCHANGED <<book, cacheVars, storeVars, workers>>

ScanAllPagesReturn ==
    /\ LoopOver("scan_all_pages")
    /\ Return(scan.acc)
    /\ UNCHANGED <<book, cacheVars, storeVars, workers>>

\* scan_all_pages_for_chapters, the body of the loop: the pair holds i + 1
ScanForChaptersPage ==
    /\ AtPage("scan_all_pages_for_chapters")
    /\ \E failed \in BOOLEAN :
         LET chapter == ChapterNameV1(OcrImage(scan.pages[scan.i], failed))
         IN  IF chapter # <<>>
             THEN Iterate(failed, "ChapterStart", chapter,
                          <<[page_num |-> scan.i, chapter |-> chapter[1]]>>)
             ELSE Iterate(failed, "Content", chapter, <<>>)
    /\ UNCHANGED <<book, cacheVars, storeVars, workers>>

ScanForChaptersReturn ==
    /\ LoopOver("scan_all_pages_for_chapters")
    /\ Return(scan.acc)
    /\ UNCHANGED <<book, cacheVars, storeVars, workers>>

\* extract_chapters_from_ocr, the body of `for ocr_file in ocr_files`: the
\* record is read and its matches are added to chapters
OcrFilePage ==
    /\ AtPage("extract_chapters_from_ocr")
    /\ LET text == ReadText(scan.pages[scan.i].text)
           chapters == OcrChaptersOfText(scan.acc, text)
           added == SubSeq(chapters, Len(scan.acc) + 1, Len(chapters))
       IN  Iterate(FALSE, IF added = <<>> THEN "Content" ELSE "ChapterStart",
                   added, added)
    /\ UNCHANGED <<book, cacheVars, storeVars, workers>>

OcrFilesReturn ==
    /\ LoopOver("extract_chapters_from_ocr")
    /\ Return(scan.acc)
    /\ UNCHANGED <<book, cacheVars, storeVars, workers>>

\* process_pages(epub_path, output_dir, 1, end_page) on a new output
\* directory, the body of `for page_num, img_path in image_files`: no
\* record exists yet, so a page in the range goes to ocr_single_page
ProcessRangePage ==
    /\ AtPage("process_pages")
    /\ \E failed \in BOOLEAN :
         LET page_num == scan.pages[scan.i].page_num
         IN  IF page_num < DefaultStartPage \/ page_num > scan.max_pages
             THEN ~failed /\ Iterate(FALSE, "OutOfRange", <<>>, <<>>)
             ELSE Iterate(failed, "Recognized", <<>>, <<>>)
    /\ UNCHANGED <<book, cacheVars, storeVars, workers>>

ProcessRangeDone ==
    /\ LoopOver("process_pages")
    /\ Return(<<>>)
    /\ UNCHANGED <<book, cacheVars, storeVars, workers>>

NextScan ==
    \/ ScanBegin
    \/ ScanForTocPage
    \/ ScanForTocReturn
    \/ FindTocPagesPage
    \/ FindTocPagesReturn
    \/ FindTocAndExtractPage
    \/ FindTocAndExtractReturn
    \/ ScanAllPagesPage
    \/ ScanAllPagesReturn
    \/ ScanForChaptersPage
    \/ ScanForChaptersReturn
    \/ OcrFilePage
    \/ OcrFilesReturn
    \/ ProcessRangePage
    \/ ProcessRangeDone

ScanUnused == book = <<>> /\ scan = <<>>

ConcUnused == workers = <<>>

Init == CacheInitOver(RunTexts, Pipelines) /\ StoreUnused /\ ScanUnused /\ ConcUnused

Next ==
    \/ \E s \in CachePages, e \in CachePages : ProcessPagesStart(s, e)
    \/ PageOutOfRange
    \/ PageSkipped
    \/ PagePlain
    \/ PageEnhanced
    \/ PageCrash
    \/ Interrupt
    \/ ProcessPagesDone
    \/ \E p \in CachePages : OcrSinglePage(p)
    \/ \E p \in CachePages : OcrSinglePageCrash(p)

Spec == Init /\ [][Next]_vars

CallInit == CacheInitOver(CallTexts, {"plain"}) /\ StoreUnused /\ ScanUnused /\ ConcUnused

NextCall ==
    \/ \E p \in CachePages : ClientCall(p)
    \/ \E p \in CachePages : ClientCrash(p)

SpecCall == CallInit /\ [][NextCall]_vars

(***************************************************************************)
(* CLAIMS ABOUT THE RECOGNITION CACHE                                      *)
(***************************************************************************)
Returns == {"hit", "ok", "ocr_fail"}

\* C1 (SpecCall): two calls of ocr_single_page for the same page, one after
\* the other, return the same text and invoke recognition at most once in
\* total.
C1_RecognizeTwice ==
    (prev.page = last.page /\ prev.outcome \in Returns /\ last.outcome \in Returns)
        => /\ prev.ret = last.ret
           /\ prev.invoked + last.invoked <= 1

\* C2 (Spec): once a page has a record, no step of the pipeline changes the
\* record or invokes recognition for that page, and a cache hit returns the
\* text read from that record.
C2_RecordImmutable ==
    [][\A p \in CachePages :
          ocr[p].exists =>
              /\ ocr'[p] = ocr[p]
              /\ p \notin recognizing'
              /\ (last' # last /\ last'.page = p)
                    => (last'.outcome = "hit" /\ last'.ret = ReadText(ocr[p].text))]_vars

\* a second run has skipped a recorded page and a call has read it back
C2_Witness ==
    /\ run.pc = "done" /\ run.skipped >= 1 /\ run.processed = 0
    /\ last.outcome = "hit"
    /\ ocr[last.page].exists /\ ocr[last.page].text # <<>>

\* C3 (Spec): after a recognition failure for a page without a record, the
\* page's record exists and holds the empty string, and the empty string
\* was returned (the warning is printed on that path in both scripts).
C3_FailurePersistsEmpty ==
    last.outcome = "ocr_fail"
        => /\ ocr[last.page] = Record(<<>>)
           /\ last.ret = <<>>

\* C4 (Spec): when a run has completed over a page whose record was being
\* written when the process died, and has taken that record as a cache hit
\* (no recognition since), the record holds the complete text.
C4_NoTornCacheHit ==
    (run.pc = "done" /\ last.outcome = "crash" /\ ~OutOfRange(last.page))
        => (ocr[last.page].exists => ocr[last.page].text = WriteText(engine[last.page]))

\* C5 (Spec): a run that completes after an earlier run was cut short leaves,
\* for every page of its range, the record one uninterrupted run leaves (the
\* page's recognized text; no recognition call has failed), and it has not
\* recognized any page that already had a record.
C5_ResumeEqualsFresh ==
    (run.pc = "done" /\ run.resumed /\ ~anyFail)
        => /\ \A p \in CachePages :
                ~OutOfRange(p) => ocr[p] = Record(WriteText(engine[p]))
           /\ ~run.redone

InitStore == CacheUnused /\ StoreInit /\ ScanUnused /\ ConcUnused

SpecStore == InitStore /\ [][NextStore]_vars

(***************************************************************************)
(* CLAIMS ABOUT THE PAGE STORE                                             *)
(***************************************************************************)

\* the page images of the container carry distinct page numbers
DistinctPages ==
    \A i, j \in 1..Len(container) :
        (IsPageImage(container[i]) /\ IsPageImage(container[j])
            /\ container[i].index = container[j].index) => i = j

\* C6 (SpecStore): for a container whose page images carry distinct page
\* numbers, the page list the resume branch builds from the image directory
\* is the list a fresh extraction of the container returns, with the same
\* file content behind every path, also when the directory was left by an
\* extraction that was killed half way.
C6_ResumeEqualsFresh ==
    (branch.kind = "resume" /\ branch.pc = "done" /\ DistinctPages)
        => /\ image_files = ExtractAllImages(container)
           /\ \A i \in 1..Len(image_files) :
                DataAt(images, image_files[i].path)
                    = DataAt(FreshDir(container), image_files[i].path)

\* C7 (SpecStore): the page list a completed extraction returns holds each
\* page number at most once.
C7_UniquePageNumbers ==
    (branch.kind = "fresh" /\ branch.pc = "done")
        => \A i \in 1..Len(image_files), j \in 1..Len(image_files) :
              image_files[i].page_num = image_files[j].page_num => i = j

(***************************************************************************)
(* The scans: a book of up to MaxBook pages, one scan of it                *)
(***************************************************************************)
InitScan == CacheUnused /\ StoreUnused /\ ScanInit /\ ConcUnused

SpecScan == InitScan /\ [][NextScan]_vars

Returned == scan.pc = "done"

NoDuplicates(list) ==
    \A i, j \in 1..Len(list) : list[i] = list[j] => i = j

\* C8: a result returned by scan_for_toc, find_toc_pages or
\* extract_chapters_from_ocr never holds the same title twice, also when
\* the title was matched on different pages.
C8_NoDuplicateTitles ==
    (Returned /\ scan.tool \in {"scan_for_toc", "find_toc_pages",
                                "extract_chapters_from_ocr"})
        => NoDuplicates(scan.result)

\* the title of a result entry: scan_all_pages returns (page_num, chapter)
TitleOf(entry) == IF scan.tool \in FullScanTools THEN entry.chapter ELSE entry

\* C9: in scan_for_toc and in scan_all_pages, a page whose recognition
\* failed is labeled Content and adds nothing to the result, and the scan
\* still visits every page of its list, one log entry per page in order;
\* every title of the result comes from a page that was recognized.
C9_FailedPageIsContent ==
    scan.tool \in {"scan_for_toc", "scan_all_pages"}
        => /\ Len(scan.log) = scan.i - 1
           /\ \A k \in 1..Len(scan.log) :
                 /\ scan.log[k].page_num = scan.pages[k].page_num
                 /\ scan.log[k].failed =>
                       scan.log[k].label = "Content" /\ scan.log[k].added = 0
           /\ Returned =>
                 /\ Len(scan.log) = Len(scan.pages)
                 /\ \A r \in 1..Len(scan.result) :
                       \E k \in 1..Len(scan.log) :
                          /\ ~scan.log[k].failed
                          /\ Contains(scan.log[k].titles, TitleOf(scan.result[r]))

\* C9 witness: a scan_for_toc that returned after a failed first page,
\* with a later page that was a table of contents and gave it titles.
C9_Witness ==
    /\ Returned
    /\ scan.tool = "scan_for_toc"
    /\ Len(scan.log) >= 2
    /\ scan.log[1].failed
    /\ book[1].text # <<>>
    /\ \E k \in 2..Len(scan.log) : ~scan.log[k].failed /\ scan.log[k].added > 0
    /\ scan.result # <<>>

\* C10: every title that extract_toc_entries, extract_chapters_from_ocr or
\* extract_chapter_titles_clean returns has at least 4 characters.
C10_TitlesAtLeastFour ==
    scan.tool \in {"scan_for_toc", "extract_chapters_from_ocr",
                   "find_toc_and_extract_chapters"}
        => \A k \in 1..Len(scan.log) :
              \A t \in 1..Len(scan.log[k].titles) : Len(scan.log[k].titles[t]) >= 4

\* C11: no title that extract_chapters_from_ocr, extract_toc_entries or
\* extract_chapter_titles_clean returns contains a vertical bar.
C11_NoVerticalBar ==
    scan.tool \in {"scan_for_toc", "extract_chapters_from_ocr",
                   "find_toc_and_extract_chapters"}
        => \A k \in 1..Len(scan.log) :
              \A t \in 1..Len(scan.log[k].titles) :
                 ~Contains(scan.log[k].titles[t], "|")

\* the page numbers a returned result mentions: the full scans return
\* (page_num, chapter) pairs, the other scans return titles only
PagesInResult ==
    IF scan.tool \in FullScanTools
    THEN {scan.result[r].page_num : r \in 1..Len(scan.result)}
    ELSE {}

\* C12: when scan_for_toc or scan_all_pages has returned, every page whose
\* recognition failed during the scan appears, with its page number, in
\* the result.
C12_FailuresReported ==
    (Returned /\ scan.tool \in {"scan_for_toc", "scan_all_pages"})
        => \A k \in 1..Len(scan.log) :
              scan.log[k].failed => scan.log[k].page_num \in PagesInResult

IsChapterStart(entry) == entry.label = "ChapterStart"

\* C13: a returned full scan (scan_all_pages, scan_all_pages_for_chapters)
\* has visited every page of the book once, in ascending page order, and
\* its result holds, for each page labeled ChapterStart and in that order,
\* the pair of that page's own page number and its title.
C13_OwnPageNumbers ==
    (Returned /\ scan.tool \in FullScanTools)
        => /\ Len(scan.log) = Len(book)
           /\ \A k \in 1..Len(scan.log) : scan.log[k].page_num = book[k].page_num
           /\ LET starts == SelectSeq(scan.log, IsChapterStart)
              IN  /\ Len(scan.result) = Len(starts)
                  /\ \A r \in 1..Len(starts) :
                        /\ scan.result[r].page_num = starts[r].page_num
                        /\ scan.result[r].chapter = starts[r].titles[1]

\* the text the scan had of its k-th page
TextSeen(k) == OcrImage(scan.pages[k], scan.log[k].failed)

\* C14: in a TOC scan (scan_for_toc, find_toc_pages,
\* find_toc_and_extract_chapters) a page adds titles to the result only if
\* the scan took it for a table of contents or its first lines open with a
\* chapter heading; any other page, whatever chapter pattern its text
\* holds, adds nothing.
C14_OnlyFromTocOrChapterStart ==
    scan.tool \in TocTools
        => \A k \in 1..Len(scan.log) :
              scan.log[k].added > 0
                 => \/ scan.log[k].label = "TableOfContents"
                    \/ ChapterNameV1(TextSeen(k)) # <<>>

\* C15: in a full scan (scan_all_pages, scan_all_pages_for_chapters) a page
\* is labeled ChapterStart, and yields a chapter, only if its text, leading
\* white space aside, begins with the ordinal marker and a unit word.
C15_ChapterStartAnchored ==
    scan.tool \in FullScanTools
        => \A k \in 1..Len(scan.log) :
              (scan.log[k].label = "ChapterStart" \/ scan.log[k].added > 0)
                 => ChapterHeadEnd(Strip(TextSeen(k)), 1, Numerals, Units) # 0

\* the number of the first page, in numeric order, on which a title was found
FirstPageOf(title) ==
    LET found == {scan.log[k].page_num : k \in {n \in 1..Len(scan.log) :
                                                 Contains(scan.log[n].titles, title)}}
    IN  CHOOSE p \in found : \A q \in found : p <= q

\* C16: the titles of a result returned by extract_chapters_from_ocr or
\* scan_for_toc stand in the order of the pages on which each first occurs,
\* pages taken in ascending numeric order of their page numbers.
C16_NumericPageOrder ==
    (Returned /\ scan.tool \in {"extract_chapters_from_ocr", "scan_for_toc"})
        => \A i, j \in 1..Len(scan.result) :
              i < j => FirstPageOf(scan.result[i]) <= FirstPageOf(scan.result[j])

WasRecognized(entry) == entry.label # "OutOfRange"

\* C17: a returned scan_for_toc, find_toc_and_extract_chapters or
\* process_pages with bound max_pages (end_page) has recognized exactly the
\* first max_pages pages of the ascending page sequence, counted by
\* position, whatever their page numbers.
C17_WindowByPosition ==
    (Returned /\ scan.tool \in {"scan_for_toc", "find_toc_and_extract_chapters",
                                "process_pages"})
        => LET n == Min(scan.max_pages, Len(book))
               recognized == SelectSeq(scan.log, WasRecognized)
           IN  /\ Len(recognized) = n
               /\ \A k \in 1..n : recognized[k].page_num = book[k].page_num

(***************************************************************************)
(* CONCURRENT RUNS: MaxWorkers processes (two pipeline runs over the same  *)
(* output directory), each inside ocr_single_page, interleaved statement   *)
(* by statement.  The record files ocr are what they share.                *)
(***************************************************************************)
MaxWorkers == 2
Workers == 1..MaxWorkers

Resting == [pc |-> "idle", page |-> 0, text |-> <<>>]

InitConc ==
    /\ CacheInitOver(RunTexts, {"plain"})
    /\ StoreUnused
    /\ ScanUnused
    /\ workers = [w \in Workers |-> Resting]

ConcFrame == UNCHANGED <<engine, recognizing, run, last, prev, anyFail, storeVars, scanVars>>

\* ocr_single_page(image_path, ocr_dir, page_num) is entered
ConcCall ==
    /\ \E w \in Workers, p \in CachePages :
         /\ workers[w].pc = "idle"
         /\ workers' = [workers EXCEPT ![w] = [pc |-> "check", page |-> p, text |-> <<>>]]
    /\ UNCHANGED ocr
    /\ ConcFrame

\* `if os.path.exists(ocr_file)`: the record is read and returned, or the
\* worker goes on to recognize
ConcExists ==
    /\ \E w \in Workers :
         /\ workers[w].pc = "check"
         /\ workers' = [workers EXCEPT ![w] =
                           IF CacheHit(workers[w].page)
                           THEN Resting
                           ELSE [@ EXCEPT !.pc = "recognize"]]
    /\ UNCHANGED ocr
    /\ ConcFrame

\* Image.open / image_to_string: the text, or the except branch returns ""
ConcRecognize ==
    /\ \E w \in Workers, failed \in BOOLEAN :
         /\ workers[w].pc = "recognize"
         /\ workers' = [workers EXCEPT ![w] =
                           IF failed
                           THEN Resting
                           ELSE [@ EXCEPT !.pc = "write",
                                          !.text = engine[workers[w].page]]]
    /\ UNCHANGED ocr
    /\ ConcFrame

\* open(ocr_file, 'w'): the record is created or truncated
ConcOpen ==
    /\ \E w \in Workers :
         /\ workers[w].pc = "write"
         /\ ocr' = [ocr EXCEPT ![workers[w].page] = Record(<<>>)]
         /\ workers' = [workers EXCEPT ![w].pc = "opened"]
    /\ ConcFrame

\* f.write(text), close, return text
ConcWrite ==
    /\ \E w \in Workers :
         /\ workers[w].pc = "opened"
         /\ ocr' = [ocr EXCEPT ![workers[w].page] = Record(WriteText(workers[w].text))]
         /\ workers' = [workers EXCEPT ![w] = Resting]
    /\ ConcFrame

NextConc ==
    \/ ConcCall
    \/ ConcExists
    \/ ConcRecognize
    \/ ConcOpen
    \/ ConcWrite

SpecConc == InitConc /\ [][NextConc]_vars

\* worker w is between its check of page p's record and the end of its write
InSection(w, p) ==
    workers[w].page = p /\ workers[w].pc \in {"recognize", "write", "opened"}

\* C18: two workers are never both between the check and the end of the
\* write for the same page.
C18_PerPageMutualExclusion ==
    \A p \in CachePages : \A w1, w2 \in Workers :
        (InSection(w1, p) /\ InSection(w2, p)) => w1 = w2

====
